---- MODULE Spec2Model ----
(***************************************************************************)
(* Context compaction (packages/api/src/compaction/CompactionService.ts):  *)
(* the token estimator, the model policy table, the compaction policy,     *)
(* the Responses-API input converter and the compact() client.             *)
(***************************************************************************)
EXTENDS Integers, Sequences, FiniteSets, TLC

(***************************************************************************)
(* JavaScript values.  A value is a tuple whose first element is its kind: *)
(*   <<"undef">>  <<"null">>  <<"bool", b>>  <<"num", k>>  <<"nan">>       *)
(*   <<"str", runs>>  <<"arr", items>>  <<"obj", entries>>                 *)
(* A string is kept run-length encoded: runs is a sequence of <<c, n>>,    *)
(* the character c repeated n >= 1 times, so that strings of more than a   *)
(* thousand characters stay small.  An object is the ordered sequence of   *)
(* its <<key, value>> entries, the order of Object.entries.                *)
(***************************************************************************)
Undefined == <<"undef">>
Null == <<"null">>
NaN == <<"nan">>
Bool(b) == <<"bool", b>>
Num(k) == <<"num", k>>
Str(runs) == <<"str", runs>>
Arr(items) == <<"arr", items>>
Obj(entries) == <<"obj", entries>>

Kind(v) == v[1]

\* typeof v
TypeOf(v) ==
    CASE Kind(v) = "str" -> "string"
      [] Kind(v) \in {"num", "nan"} -> "number"
      [] Kind(v) = "bool" -> "boolean"
      [] Kind(v) = "undef" -> "undefined"
      [] OTHER -> "object"

\* Array.isArray(v)
IsArray(v) == Kind(v) = "arr"

\* the string literal whose characters are chars (a run of one per character)
Lit(chars) == Str([i \in 1..Len(chars) |-> <<chars[i], 1>>])

\* the string of n times the character c
Rep(c, n) == IF n = 0 THEN <<>> ELSE << <<c, n>> >>

\* str.length
RECURSIVE strLength(_)
strLength(runs) ==
    IF runs = <<>> THEN 0 ELSE Head(runs)[2] + strLength(Tail(runs))

\* str.slice(0, k)
RECURSIVE slice0(_, _)
slice0(runs, k) ==
    IF k <= 0 \/ runs = <<>> THEN <<>>
    ELSE IF Head(runs)[2] >= k THEN << <<Head(runs)[1], k>> >>
    ELSE <<Head(runs)>> \o slice0(Tail(runs), k - Head(runs)[2])

\* the i-th character of the string, i in 1..length
RECURSIVE charAt(_, _)
charAt(runs, i) ==
    IF i <= Head(runs)[2] THEN Head(runs)[1]
    ELSE charAt(Tail(runs), i - Head(runs)[2])

\* str.startsWith(prefix), prefix a sequence of characters
startsWith(runs, prefix) ==
    /\ Len(prefix) <= strLength(runs)
    /\ \A i \in 1..Len(prefix) : charAt(runs, i) = prefix[i]

UpperCase ==
    <<"A","B","C","D","E","F","G","H","I","J","K","L","M",
      "N","O","P","Q","R","S","T","U","V","W","X","Y","Z">>
LowerCase ==
    <<"a","b","c","d","e","f","g","h","i","j","k","l","m",
      "n","o","p","q","r","s","t","u","v","w","x","y","z">>
Digits == <<"0","1","2","3","4","5","6","7","8","9">>

Range(s) == {s[i] : i \in DOMAIN s}

\* str.toLowerCase()
toLowerCase(runs) ==
    [i \in 1..Len(runs) |->
        IF runs[i][1] \in Range(UpperCase)
        THEN <<LowerCase[CHOOSE j \in 1..26 : UpperCase[j] = runs[i][1]], runs[i][2]>>
        ELSE runs[i]]

\* str.includes(needle), needle a non-empty sequence of characters
includes(runs, needle) ==
    \E start \in 0..(strLength(runs) - Len(needle)) :
        \A i \in 1..Len(needle) : charAt(runs, start + i) = needle[i]

\* JavaScript truthiness
Truthy(v) ==
    CASE Kind(v) \in {"undef", "null", "nan"} -> FALSE
      [] Kind(v) = "bool" -> v[2]
      [] Kind(v) = "num" -> v[2] # 0
      [] Kind(v) = "str" -> v[2] # <<>>
      [] OTHER -> TRUE

\* a || b
Or(a, b) == IF Truthy(a) THEN a ELSE b

\* obj[key] of an object; a property read of a string, number or boolean
\* (the samples read none of their own properties) is undefined
RECURSIVE GetEntry(_, _)
GetEntry(entries, key) ==
    IF entries = <<>> THEN Undefined
    ELSE IF Head(entries)[1] = key THEN Head(entries)[2]
    ELSE GetEntry(Tail(entries), key)

Get(v, key) == IF Kind(v) = "obj" THEN GetEntry(v[2], key) ELSE Undefined

\* v.length: of a string, of an array; undefined of the other sample values
\* (no sample object has a key named length)
LengthOf(v) ==
    CASE Kind(v) = "str" -> Num(strLength(v[2]))
      [] Kind(v) = "arr" -> Num(Len(v[2]))
      [] OTHER -> Undefined

\* a + b on numbers
JsAdd(a, b) == IF a = NaN \/ b = NaN THEN NaN ELSE Num(a[2] + b[2])

\* Math.ceil(x / 4) for x a length: undefined / 4 is NaN
MathCeilDiv4(x) ==
    IF Kind(x) = "num"
    THEN Num(IF x[2] % 4 = 0 THEN x[2] \div 4 ELSE x[2] \div 4 + 1)
    ELSE NaN

(***************************************************************************)
(* Token estimator                                                         *)
(***************************************************************************)
IMAGE_TOKEN_ESTIMATE == 1000

\* the characters of the prefix 'data:image/'
DataImagePrefix == <<"d","a","t","a",":","i","m","a","g","e","/">>

\* the characters the class [A-Za-z0-9+/=] matches
Base64Class == Range(UpperCase) \cup Range(LowerCase) \cup Range(Digits) \cup {"+", "/", "="}

\* /^[A-Za-z0-9+/=]+$/.test(str): one or more characters, all of the class
TestBase64(runs) == runs # <<>> /\ \A i \in 1..Len(runs) : runs[i][1] \in Base64Class

\* isBase64ImageData with the length test off by one
isBase64ImageData_from1000(runs) ==
    \/ startsWith(runs, DataImagePrefix)
    \/ (strLength(runs) >= 1000 /\ TestBase64(slice0(runs, 100)))

isBase64ImageData(runs) ==
    \/ startsWith(runs, DataImagePrefix)
    \/ (strLength(runs) > 1000 /\ TestBase64(slice0(runs, 100)))

\* the content-item tags the code compares item.type with
TEXT == Lit(<<"t","e","x","t">>)
IMAGE_URL == Lit(<<"i","m","a","g","e","_","u","r","l">>)
FILE == Lit(<<"f","i","l","e">>)
INPUT_TEXT == Lit(<<"i","n","p","u","t","_","t","e","x","t">>)
INPUT_IMAGE == Lit(<<"i","n","p","u","t","_","i","m","a","g","e">>)
INPUT_FILE == Lit(<<"i","n","p","u","t","_","f","i","l","e">>)

RECURSIVE estimateTokens(_), estimateTokensExcludingImages(_)
RECURSIVE estimateItems(_, _), estimateEntries(_, _)

\* one pass of the loop over the array's items (lines 81-99)
estimateItem(item) ==
    IF TypeOf(item) = "object" /\ item # Null
    THEN LET type == Get(item, "type") IN
         IF type = IMAGE_URL \/ type = INPUT_IMAGE
         THEN Num(IMAGE_TOKEN_ESTIMATE)
         ELSE IF type = FILE \/ type = INPUT_FILE
         THEN Num(IMAGE_TOKEN_ESTIMATE)
         ELSE IF type = TEXT \/ type = INPUT_TEXT
         THEN LET text == Or(Or(Get(item, "text"), Get(item, "content")), Str(<<>>))
              IN MathCeilDiv4(LengthOf(text))
         ELSE estimateTokensExcludingImages(item)
    ELSE Num(0)

estimateItems(items, total) ==
    IF items = <<>> THEN total
    ELSE estimateItems(Tail(items), JsAdd(total, estimateItem(Head(items))))

estimateTokens(content) ==
    IF TypeOf(content) = "string"
    THEN IF isBase64ImageData(content[2])
         THEN Num(IMAGE_TOKEN_ESTIMATE)
         ELSE MathCeilDiv4(LengthOf(content))
    ELSE IF IsArray(content)
    THEN estimateItems(content[2], Num(0))
    ELSE IF TypeOf(content) = "object" /\ content # Null
    THEN estimateTokensExcludingImages(content)
    ELSE Num(0)

\* one pass of the loop over Object.entries(obj) (lines 113-130)
estimateEntry(key, value) ==
    IF key \in {"url", "image_url", "data"}
          /\ TypeOf(value) = "string" /\ isBase64ImageData(value[2])
    THEN Num(IMAGE_TOKEN_ESTIMATE)
    ELSE IF TypeOf(value) = "string"
    THEN IF isBase64ImageData(value[2])
         THEN Num(IMAGE_TOKEN_ESTIMATE)
         ELSE MathCeilDiv4(LengthOf(value))
    ELSE IF TypeOf(value) = "object" /\ value # Null
    THEN estimateTokens(value)
    ELSE Num(0)

estimateEntries(entries, total) ==
    IF entries = <<>> THEN total
    ELSE estimateEntries(Tail(entries),
                         JsAdd(total, estimateEntry(Head(entries)[1], Head(entries)[2])))

\* Object.entries of an array are its <<index, item>> pairs
EntriesOf(obj) ==
    IF IsArray(obj) THEN [i \in 1..Len(obj[2]) |-> <<"#", obj[2][i]>>] ELSE obj[2]

estimateTokensExcludingImages(obj) == estimateEntries(EntriesOf(obj), Num(0))

(***************************************************************************)
(* Model policy table and compaction policy                                *)
(***************************************************************************)
\* 'gpt-5.2'
GPT_5_2 == <<"g","p","t","-","5",".","2">>

COMPACTION_SUPPORTED_MODELS == <<GPT_5_2>>

\* thresholdPercent is kept in hundredths: 70 stands for 0.70
DEFAULT_CONFIG ==
    [enabled |-> Bool(FALSE),
     thresholdPercent |-> 70,
     minTokensBeforeCompaction |-> 10000,
     preserveInstructions |-> Bool(TRUE),
     compactionPrompt |-> Undefined]

\* the entries of MODEL_CONTEXT_WINDOWS, in insertion order
MODEL_CONTEXT_WINDOWS ==
    << <<GPT_5_2, 400000>>,
       <<GPT_5_2 \o <<"-","p","r","o">>, 400000>>,
       <<GPT_5_2 \o <<"-","c","o","d","e","x">>, 400000>> >>

DEFAULT_CONTEXT_WINDOW == 128000

\* model is a string value
supportsCompaction(model) ==
    IF ~Truthy(model) THEN FALSE
    ELSE LET lowerModel == toLowerCase(model[2]) IN
         \E k \in DOMAIN COMPACTION_SUPPORTED_MODELS :
             includes(lowerModel, COMPACTION_SUPPORTED_MODELS[k])

RECURSIVE firstWindow(_, _)
firstWindow(lowerModel, entries) ==
    IF entries = <<>> THEN DEFAULT_CONTEXT_WINDOW
    ELSE IF includes(lowerModel, Head(entries)[1]) THEN Head(entries)[2]
    ELSE firstWindow(lowerModel, Tail(entries))

getContextWindow(model) == firstWindow(toLowerCase(model[2]), MODEL_CONTEXT_WINDOWS)

\* currentTokens < m, for currentTokens a number value and m an integer
JsLess(currentTokens, m) == currentTokens # NaN /\ currentTokens[2] < m

\* currentTokens >= contextWindow * thresholdPercent, both sides times 100
\* (for the percents used, 0.01, 0.5, 0.7, 0.75 and 1, the double product of
\* the code is the exact product)
JsAtLeastPercent(currentTokens, contextWindow, hundredths) ==
    currentTokens # NaN /\ currentTokens[2] * 100 >= contextWindow * hundredths

\* shouldCompact with an exclusive floor and an exclusive threshold
shouldCompact_exclusive(this, currentTokens) ==
    /\ Truthy(this.config.enabled)
    /\ supportsCompaction(this.model)
    /\ currentTokens # NaN
    /\ currentTokens[2] > this.config.minTokensBeforeCompaction
    /\ currentTokens[2] * 100 > getContextWindow(this.model) * this.config.thresholdPercent

\* this.shouldCompact(currentTokens)
shouldCompact(this, currentTokens) ==
    IF ~Truthy(this.config.enabled) THEN FALSE
    ELSE IF ~supportsCompaction(this.model) THEN FALSE
    ELSE IF JsLess(currentTokens, this.config.minTokensBeforeCompaction) THEN FALSE
    ELSE JsAtLeastPercent(currentTokens, getContextWindow(this.model),
                          this.config.thresholdPercent)

(***************************************************************************)
(* Input format converter                                                  *)
(***************************************************************************)
\* x?.key
OptGet(x, key) == IF Kind(x) \in {"undef", "null"} THEN Undefined ELSE Get(x, key)

\* a converter that rebuilds input_text and input_file items like text and file items
convertContentItem_rebuildInput(item) ==
    LET type == Get(item, "type") IN
    IF type = TEXT \/ type = INPUT_TEXT
    THEN Obj(<< <<"type", INPUT_TEXT>>, <<"text", Get(item, "text")>> >>)
    ELSE IF type = IMAGE_URL
    THEN LET imageUrl == Get(item, "image_url") IN
         Obj(<< <<"type", INPUT_IMAGE>>,
                <<"image_url", Or(OptGet(imageUrl, "url"), imageUrl)>> >>)
    ELSE IF type = FILE \/ type = INPUT_FILE
    THEN LET file == Get(item, "file") IN
         Obj(<< <<"type", INPUT_FILE>>,
                <<"filename", OptGet(file, "filename")>>,
                <<"file_data", OptGet(file, "file_data")>> >>)
    ELSE item

convertContentItem(item) ==
    LET type == Get(item, "type") IN
    IF type = TEXT
    THEN Obj(<< <<"type", INPUT_TEXT>>, <<"text", Get(item, "text")>> >>)
    ELSE IF type = IMAGE_URL
    THEN LET imageUrl == Get(item, "image_url") IN
         Obj(<< <<"type", INPUT_IMAGE>>,
                <<"image_url", Or(OptGet(imageUrl, "url"), imageUrl)>> >>)
    ELSE IF type = FILE
    THEN LET file == Get(item, "file") IN
         Obj(<< <<"type", INPUT_FILE>>,
                <<"filename", OptGet(file, "filename")>>,
                <<"file_data", OptGet(file, "file_data")>> >>)
    ELSE IF type = INPUT_FILE \/ type = INPUT_TEXT \/ type = INPUT_IMAGE
    THEN item
    ELSE item

\* a message is [type |-> what _getType() returns, content |-> a value]
roleOf(msg) ==
    IF msg.type = "human" THEN Lit(<<"u","s","e","r">>)
    ELSE IF msg.type = "ai" THEN Lit(<<"a","s","s","i","s","t","a","n","t">>)
    ELSE Lit(<<"s","y","s","t","e","m">>)

\* a map that leaves out the items whose tag the converter does not know
mapConvert_dropUnknown(items) ==
    LET known == SelectSeq(items, LAMBDA item :
                     Get(item, "type") \in {TEXT, IMAGE_URL, FILE, INPUT_TEXT, INPUT_IMAGE, INPUT_FILE})
    IN [k \in 1..Len(known) |-> convertContentItem(known[k])]

\* msg.content.map(convertContentItem)
mapConvert(items) == [k \in 1..Len(items) |-> convertContentItem(items[k])]

RECURSIVE convertLoop(_, _)
convertLoop(messages, input) ==
    IF messages = <<>> THEN input
    ELSE LET msg == Head(messages) IN
         convertLoop(Tail(messages),
             IF TypeOf(msg.content) = "string"
             THEN Append(input, Obj(<< <<"role", roleOf(msg)>>, <<"content", msg.content>> >>))
             ELSE IF IsArray(msg.content)
             THEN Append(input, Obj(<< <<"role", roleOf(msg)>>,
                                       <<"content", Arr(mapConvert(msg.content[2]))>> >>))
             ELSE input)

convertToResponsesInput(messages, instructions) == convertLoop(messages, <<>>)

(***************************************************************************)
(* CompactionService                                                       *)
(***************************************************************************)
\* 'https://api.openai.com/v1'
DefaultBaseURL ==
    Lit(<<"h","t","t","p","s",":","/","/","a","p","i",".","o","p","e","n","a","i",
          ".","c","o","m","/","v","1">>)

\* new CompactionService(options): options.config is a record holding the
\* keys the caller gave (none when options.config is undefined)
constructor(options) ==
    [apiKey |-> options.apiKey,
     baseURL |-> Or(options.baseURL, DefaultBaseURL),
     model |-> options.model,
     config |-> [k \in DOMAIN DEFAULT_CONFIG |->
                    IF k \in DOMAIN options.config
                    THEN options.config[k] ELSE DEFAULT_CONFIG[k]]]

RECURSIVE estimateMessages(_, _)
estimateMessages(messages, total) ==
    IF messages = <<>> THEN total
    ELSE estimateMessages(Tail(messages),
                          JsAdd(total, estimateTokens(Head(messages).content)))

\* this.estimateConversationTokens(messages, instructions)
estimateConversationTokens(messages, instructions) ==
    estimateMessages(messages,
        IF Truthy(instructions) THEN JsAdd(Num(0), estimateTokens(instructions))
        ELSE Num(0))

\* the object compact() passes to JSON.stringify (lines 315-321)
requestBody(this, messages, instructions) ==
    Obj(<< <<"model", this.model>>,
           <<"input", Arr(convertToResponsesInput(messages, instructions))>> >>
        \o (IF Truthy(instructions) /\ Truthy(this.config.preserveInstructions)
            THEN << <<"instructions", instructions>> >> ELSE <<>>))

\* the two results compact() builds
NotCompacted(originalTokens) == [compacted |-> FALSE, originalTokens |-> originalTokens]

Compacted(compactedInput, originalTokens, compactedTokens) ==
    [compacted |-> TRUE, compactedInput |-> compactedInput,
     originalTokens |-> originalTokens, compactedTokens |-> compactedTokens]

\* no result yet
NoResult == <<>>

\* the conversion writing each converted message over the one it read
messagesAfterConvert_inPlace(messages) == convertToResponsesInput(messages, Undefined)

\* the caller's messages after estimateConversationTokens: the loop reads
\* msg.content and assigns only to the local total (lines 276-279)
messagesAfterEstimate(messages) == messages

\* the caller's messages after convertToResponsesInput: every item pushed to
\* the local input is a new object, and content arrays are copied by map
\* (lines 176-197); convertContentItem assigns to no property of its item
messagesAfterConvert(messages) == messages

\* the caller's messages after compact(): the estimate reads them, and when
\* compaction is triggered the request body is built from their conversion;
\* nothing after line 316 refers to them
messagesAfterCompact(this, messages, instructions) ==
    IF shouldCompact(this, estimateConversationTokens(messages, instructions))
    THEN messagesAfterConvert(messagesAfterEstimate(messages))
    ELSE messagesAfterEstimate(messages)

\* compact() sending its request before it asks shouldCompact
compactStart_fetchFirst(this, messages, instructions) ==
    LET originalTokens == estimateConversationTokens(messages, instructions)
        request == [url |-> Or(this.baseURL, DefaultBaseURL),
                    authorization |-> this.apiKey,
                    body |-> requestBody(this, messages, instructions)]
    IN IF ~shouldCompact(this, originalTokens)
       THEN [pc |-> "returned", originalTokens |-> originalTokens,
             result |-> NotCompacted(originalTokens), sent |-> <<request>>]
       ELSE [pc |-> "fetch", originalTokens |-> originalTokens,
             result |-> NoResult, sent |-> <<request>>]

\* compact() up to its first await (lines 291-322): where the invocation is
\* then, what it has returned, and the requests it has sent
compactStart(this, messages, instructions) ==
    LET originalTokens == estimateConversationTokens(messages, instructions) IN
    IF ~shouldCompact(this, originalTokens)
    THEN [pc |-> "returned", originalTokens |-> originalTokens,
          result |-> NotCompacted(originalTokens), sent |-> <<>>]
    ELSE [pc |-> "fetch", originalTokens |-> originalTokens,
          result |-> NoResult,
          sent |-> << [url |-> Or(this.baseURL, DefaultBaseURL),
                       authorization |-> this.apiKey,
                       body |-> requestBody(this, messages, instructions)] >>]

\* a catch block that starts the remote call again
catchBlock_retry(originalTokens) == [pc |-> "fetch", result |-> NoResult]

\* the catch block (lines 346-353)
catchBlock(originalTokens) ==
    [pc |-> "returned", result |-> NotCompacted(originalTokens)]

\* compactedData?.usage?.total_tokens || estimateTokens(compactedData?.output)
compactedTokensOf(compactedData) ==
    Or(OptGet(OptGet(compactedData, "usage"), "total_tokens"),
       estimateTokens(OptGet(compactedData, "output")))

\* compact() without its test of response.ok
afterFetch_ignoreStatus(response) == "json"

\* after await fetch(...) resolved with a response (line 324)
afterFetch(response) == IF ~response.ok THEN "text" ELSE "json"

\* after await response.json() resolved with compactedData (lines 334-345)
afterJson(compactedData, originalTokens) ==
    [pc |-> "returned",
     result |-> Compacted(OptGet(compactedData, "output"), originalTokens,
                          compactedTokensOf(compactedData))]

(***************************************************************************)
(* Sample inputs                                                           *)
(***************************************************************************)
\* longest array of content items the estimator and converter samples hold
MaxItems == 2

\* compact() invocations in flight on the one instance
NumInvocations == 2

Invocations == 1..NumInvocations

Chars(lit) == lit[2]

\* strings: a head, then n1 times c1, then n2 times c2
StringHeads ==
    <<<<>>, Chars(Lit(DataImagePrefix)), Chars(Lit(<<"d","a","t","a",":","i","m","a","g","e">>))>>

StringSamples ==
    {Str(StringHeads[h] \o Rep(c1, n1) \o Rep(c2, n2)) :
        h \in DOMAIN StringHeads, c1 \in {"A", " "}, n1 \in {0, 1, 4, 5, 99, 100, 1000, 1001},
        c2 \in {"/", "-"}, n2 \in {0, 1, 901, 1000}}

Base64Blob == Str(Rep("Q", 6000))
DataUri == Str(Chars(Lit(DataImagePrefix)) \o Rep("Q", 2000))
Url == Lit(<<"h","t","t","p",":","/","/","x">>)
Prose(n) == Str(Rep(".", n))

\* content items: records with known, unknown, missing and non-string tags,
\* with string and non-string fields
ItemSamples ==
    << Obj(<< <<"type", TEXT>>, <<"text", Prose(5)>> >>),
       Obj(<< <<"type", TEXT>>, <<"text", DataUri>> >>),
       Obj(<< <<"type", TEXT>>, <<"text", Num(7)>> >>),
       Obj(<< <<"type", TEXT>>, <<"text", Str(<<>>)>>, <<"content", Prose(8)>> >>),
       Obj(<< <<"type", TEXT>> >>),
       Obj(<< <<"type", INPUT_TEXT>>, <<"text", Prose(9)>>, <<"cache_control", Prose(3)>> >>),
       Obj(<< <<"type", INPUT_TEXT>>, <<"content", Base64Blob>> >>),
       Obj(<< <<"type", IMAGE_URL>>, <<"image_url", Obj(<< <<"url", DataUri>> >>)>> >>),
       Obj(<< <<"type", IMAGE_URL>>, <<"image_url", Url>> >>),
       Obj(<< <<"type", IMAGE_URL>> >>),
       Obj(<< <<"type", INPUT_IMAGE>>, <<"image_url", Url>>, <<"detail", Prose(4)>> >>),
       Obj(<< <<"type", FILE>>,
              <<"file", Obj(<< <<"filename", Prose(5)>>, <<"file_data", Base64Blob>> >>)>> >>),
       Obj(<< <<"type", FILE>>, <<"file", Null>> >>),
       Obj(<< <<"type", INPUT_FILE>>, <<"filename", Prose(5)>>, <<"file_data", Base64Blob>> >>),
       Obj(<< <<"type", Lit(<<"m","e","d","i","a">>)>>, <<"data", Base64Blob>>,
              <<"mimeType", Prose(10)>> >>),
       Obj(<< <<"type", Lit(<<"d","o","c","u","m","e","n","t">>)>>,
              <<"source", Obj(<< <<"data", DataUri>>, <<"pages", Arr(<<Prose(6), Num(2)>>)>> >>)>> >>),
       Obj(<< <<"text", Prose(3)>> >>),
       Obj(<< <<"type", Num(5)>>, <<"flag", Bool(TRUE)>>, <<"note", Null>> >>) >>

\* arrays of one to MaxItems content items
RECURSIVE ItemSeqs(_)
ItemSeqs(n) ==
    IF n = 0 THEN {<<>>}
    ELSE LET shorter == ItemSeqs(n - 1) IN
         shorter \cup {Append(q, ItemSamples[k]) : q \in shorter, k \in DOMAIN ItemSamples}

ArraySamples == {Arr(q) : q \in ItemSeqs(MaxItems)}

\* what estimateTokens also accepts: items that are no records, bare objects
LooseSamples ==
    { Arr(<<Null>>), Arr(<<Prose(8), Num(3)>>), Arr(<<Arr(<<Prose(8)>>)>>),
      Undefined, Null, Num(12), Bool(TRUE),
      Obj(<< <<"url", DataUri>>, <<"image_url", Base64Blob>>, <<"data", Prose(7)>> >>),
      Obj(<< <<"a", Obj(<< <<"b", Obj(<< <<"c", Arr(<<ItemSamples[1], ItemSamples[8]>>)>> >>)>> >>)>>,
             <<"n", Num(1)>> >>) }

\* message histories with their instructions
Human(content) == [type |-> "human", content |-> content]
Ai(content) == [type |-> "ai", content |-> content]
Other(type, content) == [type |-> type, content |-> content]

Conversations ==
    << [messages |-> <<Human(Prose(200000))>>, instructions |-> Undefined],
       [messages |-> <<Other("system", Prose(40)), Human(Prose(1199800)), Ai(Undefined)>>,
        instructions |-> Prose(160)],
       [messages |-> <<Human(Prose(1112000)),
                       Other("tool", Arr(<<ItemSamples[8],
                                Obj(<< <<"type", TEXT>>, <<"text", Prose(4000)>> >>)>>))>>,
        instructions |-> Str(<<>>)],
       [messages |-> <<Human(Prose(1112000)),
                       Ai(Arr(<<ItemSamples[8],
                                Obj(<< <<"type", TEXT>>, <<"text", Prose(3996)>> >>)>>))>>,
        instructions |-> Undefined],
       [messages |-> <<Human(Prose(1200000)), Ai(Arr(<<ItemSamples[3]>>))>>,
        instructions |-> Undefined] >>

\* constructor options
Gpt52 == Lit(GPT_5_2)
Gpt52Pro == Lit(<<"G","P","T","-","5",".","2","-","P","r","o">>)
ClaudeX == Lit(<<"c","l","a","u","d","e","-","x">>)
ApiKey == Lit(<<"s","k">>)

OptionSamples ==
    << [apiKey |-> ApiKey, baseURL |-> Undefined, model |-> Gpt52,
        config |-> [enabled |-> Bool(TRUE)]],
       [apiKey |-> ApiKey, baseURL |-> Url, model |-> Gpt52Pro,
        config |-> [enabled |-> Bool(TRUE), thresholdPercent |-> 50,
                    minTokensBeforeCompaction |-> 300000,
                    preserveInstructions |-> Bool(FALSE)]],
       [apiKey |-> ApiKey, baseURL |-> Undefined, model |-> Gpt52, config |-> <<>>],
       [apiKey |-> ApiKey, baseURL |-> Undefined, model |-> ClaudeX,
        config |-> [enabled |-> Bool(TRUE), thresholdPercent |-> 1,
                    minTokensBeforeCompaction |-> 0]] >>

\* what the transport and the endpoint can answer
ServerOutput == Arr(<<Obj(<< <<"type", Lit(<<"c","o","m","p","a","c","t","i","o","n">>)>>,
                            <<"encrypted_content", Prose(400)>> >>)>>)

Rejected == [rejected |-> TRUE, ok |-> FALSE, status |-> 0, malformed |-> FALSE, data |-> Undefined]
Status(code) ==
    [rejected |-> FALSE, ok |-> FALSE, status |-> code, malformed |-> FALSE, data |-> Undefined]
Malformed == [rejected |-> FALSE, ok |-> TRUE, status |-> 200, malformed |-> TRUE, data |-> Undefined]
Ok(data) == [rejected |-> FALSE, ok |-> TRUE, status |-> 200, malformed |-> FALSE, data |-> data]

Responses ==
    << Rejected, Status(500), Malformed,
       Ok(Obj(<< <<"output", ServerOutput>>,
                 <<"usage", Obj(<< <<"total_tokens", Num(90000)>> >>)>> >>)),
       Ok(Obj(<< <<"output", ServerOutput>> >>)),
       Ok(Obj(<< <<"output", ServerOutput>>,
                 <<"usage", Obj(<< <<"total_tokens", Num(0)>> >>)>> >>)),
       Ok(Obj(<< <<"usage", Obj(<< <<"total_tokens", Num(90000)>> >>)>> >>)),
       Ok(Null) >>

NoResponse == Rejected

(***************************************************************************)
(* State                                                                   *)
(***************************************************************************)
VARIABLES
    this,            \* the instance's fields: apiKey, baseURL, model, config
    pc,              \* per invocation: idle, fetch, text, json, returned, threw
    messages,        \* per invocation: the caller's message history, as it is now
    passed,         \* per invocation: the message passed as it was at the call
    instructions,    \* per invocation: the caller's instructions
    originalTokens,  \* per invocation: the local of that name
    response,        \* per invocation: what the transport answered
    result,          \* per invocation: the CompactionResult returned
    sent,            \* per invocation: the requests handed to fetch
    fn, arg, ret     \* the last call of a pure function: its name, input, output

vars ==
    <<this, pc, messages, passed, instructions, originalTokens, response, result, sent,
      fn, arg, ret>>

invocationVars ==
    <<pc, messages, passed, instructions, originalTokens, response, result, sent>>
callVars == <<fn, arg, ret>>

NoInvocation ==
    /\ pc = [i \in Invocations |-> "idle"]
    /\ messages = [i \in Invocations |-> <<>>]
    /\ passed = [i \in Invocations |-> <<>>]
    /\ instructions = [i \in Invocations |-> Undefined]
    /\ originalTokens = [i \in Invocations |-> Num(0)]
    /\ response = [i \in Invocations |-> NoResponse]
    /\ result = [i \in Invocations |-> NoResult]
    /\ sent = [i \in Invocations |-> <<>>]

NoCall == fn = "none" /\ arg = Undefined /\ ret = Undefined

Init ==
    /\ \E k \in DOMAIN OptionSamples : this = constructor(OptionSamples[k])
    /\ NoInvocation
    /\ NoCall

\* every invocation reading the originalTokens of the first one, as if the
\* value were kept in one place for the whole instance
originalTokensOf_shared(i) == originalTokens[1]

\* the local originalTokens of invocation i, read after an await (lines 343, 351)
originalTokensOf(i) == originalTokens[i]

\* the caller invokes compact(messages, instructions); it runs to its first await
Compact(i, k) ==
    /\ pc[i] = "idle"
    /\ \E c \in {Conversations[k]} :
       \E s \in {compactStart(this, c.messages, c.instructions)} :
          /\ pc' = [pc EXCEPT ![i] = s.pc]
          /\ messages' = [messages EXCEPT ![i] = messagesAfterCompact(this, c.messages, c.instructions)]
          /\ passed' = [passed EXCEPT ![i] = c.messages]
          /\ instructions' = [instructions EXCEPT ![i] = c.instructions]
          /\ originalTokens' = [originalTokens EXCEPT ![i] = s.originalTokens]
          /\ result' = [result EXCEPT ![i] = s.result]
          /\ sent' = [sent EXCEPT ![i] = s.sent]
    /\ UNCHANGED <<this, response, callVars>>

\* await fetch(...) settles: it rejects, or resolves with a response
FetchSettle(i, r) ==
    /\ pc[i] = "fetch"
    /\ response' = [response EXCEPT ![i] = Responses[r]]
    /\ IF Responses[r].rejected
       THEN /\ pc' = [pc EXCEPT ![i] = catchBlock(originalTokensOf(i)).pc]
            /\ result' = [result EXCEPT ![i] = catchBlock(originalTokensOf(i)).result]
       ELSE /\ pc' = [pc EXCEPT ![i] = afterFetch(Responses[r])]
            /\ UNCHANGED result
    /\ UNCHANGED <<this, messages, passed, instructions, originalTokens, sent, callVars>>

\* await response.text() settles; resolved or rejected, the try block throws
TextSettle(i) ==
    /\ pc[i] = "text"
    /\ pc' = [pc EXCEPT ![i] = catchBlock(originalTokensOf(i)).pc]
    /\ result' = [result EXCEPT ![i] = catchBlock(originalTokensOf(i)).result]
    /\ UNCHANGED <<this, messages, passed, instructions, originalTokens, response, sent,
                   callVars>>

\* await response.json() settles: it rejects on a malformed body, or resolves
JsonSettle(i) ==
    /\ pc[i] = "json"
    /\ \E next \in {IF response[i].malformed
                     THEN catchBlock(originalTokensOf(i))
                     ELSE afterJson(response[i].data, originalTokensOf(i))} :
          /\ pc' = [pc EXCEPT ![i] = next.pc]
          /\ result' = [result EXCEPT ![i] = next.result]
    /\ UNCHANGED <<this, messages, passed, instructions, originalTokens, response, sent,
                   callVars>>

\* the caller has the result; the invocation's locals are gone
Return(i) ==
    /\ pc[i] = "returned"
    /\ pc' = [pc EXCEPT ![i] = "idle"]
    /\ messages' = [messages EXCEPT ![i] = <<>>]
    /\ passed' = [passed EXCEPT ![i] = <<>>]
    /\ instructions' = [instructions EXCEPT ![i] = Undefined]
    /\ originalTokens' = [originalTokens EXCEPT ![i] = Num(0)]
    /\ response' = [response EXCEPT ![i] = NoResponse]
    /\ result' = [result EXCEPT ![i] = NoResult]
    /\ sent' = [sent EXCEPT ![i] = <<>>]
    /\ UNCHANGED <<this, callVars>>

Next ==
    \E i \in Invocations :
        \/ \E k \in DOMAIN Conversations : Compact(i, k)
        \/ \E r \in DOMAIN Responses : FetchSettle(i, r)
        \/ TextSettle(i)
        \/ JsonSettle(i)
        \/ Return(i)

Spec == Init /\ [][Next]_vars

\* the continuation of invocation i that awaits the transport runs
Settle(i) ==
    \/ \E r \in DOMAIN Responses : FetchSettle(i, r)
    \/ TextSettle(i)
    \/ JsonSettle(i)

\* the transport settles every call handed to it and every read of a body,
\* and the event loop then runs the continuation that awaits it
FairSpec == Spec /\ \A i \in Invocations : WF_vars(Settle(i))

(***************************************************************************)
(* The pure functions, each applied to sample inputs                       *)
(***************************************************************************)
InitCall ==
    /\ this = constructor(OptionSamples[1])
    /\ NoInvocation
    /\ NoCall

\* the call has returned to its caller
CallReturn ==
    /\ fn # "none"
    /\ fn' = "none" /\ arg' = Undefined /\ ret' = Undefined
    /\ UNCHANGED <<this, invocationVars>>

EstimateSamples == StringSamples \cup ArraySamples \cup LooseSamples

EstimateTokensCall(content) ==
    /\ fn = "none"
    /\ fn' = "estimateTokens"
    /\ arg' = content
    /\ ret' = estimateTokens(content)
    /\ UNCHANGED <<this, invocationVars>>

NextEstimate ==
    \/ \E content \in EstimateSamples : EstimateTokensCall(content)
    \/ CallReturn

SpecEstimate == InitCall /\ [][NextEstimate]_vars

\* histories for the converter: the conversations, and every sample array as
\* the content of a message between a string message and a message with no content
ConvertSamples ==
    {Conversations[k].messages : k \in DOMAIN Conversations}
        \cup {<<Ai(a)>> : a \in ArraySamples}
        \cup {<<Human(Prose(5)), Other("tool", Undefined), Ai(a), Human(Arr(<<ItemSamples[1]>>))>> :
                a \in ArraySamples}

ConvertContentItemCall(k) ==
    /\ fn = "none"
    /\ fn' = "convertContentItem"
    /\ arg' = ItemSamples[k]
    /\ ret' = convertContentItem(ItemSamples[k])
    /\ UNCHANGED <<this, invocationVars>>

ConvertToResponsesInputCall(history) ==
    /\ fn = "none"
    /\ fn' = "convertToResponsesInput"
    /\ arg' = history
    /\ ret' = convertToResponsesInput(history, Undefined)
    /\ UNCHANGED <<this, invocationVars>>

NextConvert ==
    \/ \E k \in DOMAIN ItemSamples : ConvertContentItemCall(k)
    \/ \E history \in ConvertSamples : ConvertToResponsesInputCall(history)
    \/ CallReturn

SpecConvert == InitCall /\ [][NextConvert]_vars

\* instances for the policy: every model with every configuration
ModelSamples ==
    << Gpt52, Gpt52Pro, ClaudeX, Str(<<>>),
       Lit(<<"m","y","-","G","p","t","-","5",".","2","-","c","o","d","e","x">>),
       Lit(<<"g","p","t","-","5",".","1">>) >>

\* the keys given are those whose sample is not "absent" (-1 for a number)
PartialConfig(enabled, thresholdPercent, minTokens) ==
    [k \in (IF enabled = "absent" THEN {} ELSE {"enabled"})
            \cup (IF thresholdPercent = -1 THEN {} ELSE {"thresholdPercent"})
            \cup (IF minTokens = -1 THEN {} ELSE {"minTokensBeforeCompaction"}) |->
        CASE k = "enabled" ->
                 (IF enabled = "undefined" THEN Undefined ELSE Bool(enabled = "true"))
          [] k = "thresholdPercent" -> thresholdPercent
          [] OTHER -> minTokens]

TokenSamples ==
    {Num(n) : n \in {0, 3999, 4000, 4001, 9999, 10000, 10001, 199999, 200000, 200001,
                     279999, 280000, 280001, 299999, 300000, 300001, 400000}}
        \cup {NaN}

InitPolicy ==
    /\ \E m \in DOMAIN ModelSamples, enabled \in {"absent", "undefined", "true", "false"},
          thresholdPercent \in {-1, 1, 50, 75, 100}, minTokens \in {-1, 0, 300000} :
            this = constructor([apiKey |-> ApiKey, baseURL |-> Undefined,
                                model |-> ModelSamples[m],
                                config |-> PartialConfig(enabled, thresholdPercent, minTokens)])
    /\ NoInvocation
    /\ NoCall

ShouldCompactCall(currentTokens) ==
    /\ fn = "none"
    /\ fn' = "shouldCompact"
    /\ arg' = currentTokens
    /\ ret' = shouldCompact(this, currentTokens)
    /\ UNCHANGED <<this, invocationVars>>

NextPolicy ==
    \/ \E currentTokens \in TokenSamples : ShouldCompactCall(currentTokens)
    \/ CallReturn

SpecPolicy == InitPolicy /\ [][NextPolicy]_vars

(***************************************************************************)
(* Properties                                                              *)
(***************************************************************************)
\* C1: shouldCompact(currentTokens) is true exactly when the merged config
\* is enabled, the model is on the allow-list, currentTokens is at least
\* minTokensBeforeCompaction and currentTokens is at least the context window
\* times thresholdPercent, both comparisons inclusive; so it is false for every
\* count when compaction is disabled or the model is not supported.
C1_ShouldCompactIffAllFour ==
    fn = "shouldCompact" =>
        /\ ret = ( /\ this.config.enabled = Bool(TRUE)
                   /\ supportsCompaction(this.model)
                   /\ arg # NaN
                   /\ arg[2] >= this.config.minTokensBeforeCompaction
                   /\ arg[2] * 100 >= getContextWindow(this.model) * this.config.thresholdPercent )
        /\ (this.config.enabled # Bool(TRUE) \/ ~supportsCompaction(this.model) => ret = FALSE)

\* a count exactly at the floor and exactly at the threshold triggers
C1_Witness ==
    /\ fn = "shouldCompact" /\ ret = TRUE
    /\ arg[2] = this.config.minTokensBeforeCompaction
    /\ arg[2] * 100 = getContextWindow(this.model) * this.config.thresholdPercent

\* the integer the number value x holds, and whether it holds one
IsCount(x) == Kind(x) = "num" /\ x[2] \in Nat

\* C6: estimateTokens returns a non-negative integer for every input built
\* from strings, arrays of content items and key/value objects, also when an
\* item's tag is unknown or missing or its fields hold non-string values.
C6_EstimateIsNonNegativeInteger ==
    fn = "estimateTokens" => IsCount(ret)

\* what the string rule charges for the string value v
StringRule(v) == estimateTokens(v)

\* the field of a text item that is measured: text, else content, else ''
TextField(item) == Or(Or(Get(item, "text"), Get(item, "content")), Str(<<>>))

\* the charge C7 states for one item of an array
ClaimedItemCharge(item) ==
    LET type == Get(item, "type") IN
    IF type \in {IMAGE_URL, INPUT_IMAGE, FILE, INPUT_FILE} THEN Num(IMAGE_TOKEN_ESTIMATE)
    ELSE IF type \in {TEXT, INPUT_TEXT} THEN StringRule(TextField(item))
    ELSE estimateTokensExcludingImages(item)

RECURSIVE SumCharges(_)
SumCharges(items) ==
    IF items = <<>> THEN Num(0)
    ELSE JsAdd(ClaimedItemCharge(Head(items)), SumCharges(Tail(items)))

\* an array of records whose text items carry a string to measure
MeasurableArray(v) ==
    /\ IsArray(v)
    /\ \A k \in DOMAIN v[2] :
          /\ Kind(v[2][k]) = "obj"
          /\ Get(v[2][k], "type") \in {TEXT, INPUT_TEXT} => Kind(TextField(v[2][k])) = "str"

\* C7: for array content estimateTokens returns the sum of its items' charges:
\* IMAGE_TOKEN_ESTIMATE for an image or file item, the string rule's charge
\* (IMAGE_TOKEN_ESTIMATE when binary-looking, else ceil(length/4)) for the text
\* or content field of a text item, the generic object rule's for any other item.
C7_ArrayChargesPerItem ==
    fn = "estimateTokens" /\ MeasurableArray(arg) => ret = SumCharges(arg[2])

\* binary-looking, character by character: the string starts with
\* 'data:image/', or is longer than 1000 characters and its first 100
\* characters are all of the base64 alphabet
BinaryLooking(runs) ==
    \/ /\ strLength(runs) >= Len(DataImagePrefix)
       /\ \A i \in DOMAIN DataImagePrefix : charAt(runs, i) = DataImagePrefix[i]
    \/ /\ strLength(runs) > 1000
       /\ \A i \in 1..100 : charAt(runs, i) \in Base64Class

\* C8: for a string s, estimateTokens(s) is IMAGE_TOKEN_ESTIMATE when s is
\* binary-looking and ceil(length(s)/4), the least k with 4k >= length(s),
\* otherwise.
C8_StringRule ==
    fn = "estimateTokens" /\ Kind(arg) = "str" =>
        IF BinaryLooking(arg[2])
        THEN ret = Num(IMAGE_TOKEN_ESTIMATE)
        ELSE /\ IsCount(ret)
             /\ 4 * ret[2] >= strLength(arg[2])
             /\ 4 * (ret[2] - 1) < strLength(arg[2])

\* a string of more than 1000 characters that does not start with
\* 'data:image/', whose first 100 characters are base64 and whose 101st is not
C8_Witness ==
    /\ fn = "estimateTokens" /\ Kind(arg) = "str"
    /\ strLength(arg[2]) > 1000
    /\ charAt(arg[2], 1) = "A" /\ charAt(arg[2], 100) = "A" /\ charAt(arg[2], 101) = "-"
    /\ ret = Num(IMAGE_TOKEN_ESTIMATE)

\* the messages of a history that convertToResponsesInput turns into a record
Convertible(history) ==
    SelectSeq(history, LAMBDA msg : Kind(msg.content) \in {"str", "arr"})

\* the tag the converter gives an item tagged type
ConvertedTag(type) ==
    IF type = TEXT THEN INPUT_TEXT
    ELSE IF type = IMAGE_URL THEN INPUT_IMAGE
    ELSE IF type = FILE THEN INPUT_FILE
    ELSE type

C10_ConvertIsIdempotent ==
    fn = "convertContentItem" =>
        /\ Get(arg, "type") \in {INPUT_TEXT, INPUT_IMAGE, INPUT_FILE} => ret = arg
        /\ convertContentItem(ret) = ret

\* a file item has been rebuilt as an input_file item
C10_Witness ==
    /\ fn = "convertContentItem"
    /\ Get(arg, "type") = FILE
    /\ Get(ret, "type") = INPUT_FILE
    /\ Get(ret, "file_data") = Base64Blob

\* the invocation has ended: it returned, or an exception escaped it
Ended(i) == pc[i] \in {"returned", "threw"}

\* the estimate compact() computes first, over the invocation's inputs
Estimate(i) == estimateConversationTokens(messages[i], instructions[i])

\* the remote call of an ended invocation failed: the transport failed, the
\* status was not 2xx, or the body was no JSON
CallFailed(i) ==
    /\ sent[i] # <<>>
    /\ response[i].rejected \/ ~response[i].ok \/ response[i].malformed

\* C2: when shouldCompact holds and the remote call ends in a non-2xx response,
\* a transport failure or a JSON-decoding failure, compact() returns
\* compacted = false with originalTokens the estimate computed at its start,
\* and no exception escapes.
C2_FailureReturnsNotCompacted ==
    \A i \in Invocations :
        /\ pc[i] # "threw"
        /\ Ended(i) /\ CallFailed(i) =>
              /\ shouldCompact(this, Estimate(i))
              /\ pc[i] = "returned"
              /\ result[i] = NotCompacted(Estimate(i))

\* an invocation has returned after a 200 response whose body was no JSON
C2_Witness ==
    \E i \in Invocations :
        /\ pc[i] = "returned" /\ sent[i] # <<>>
        /\ response[i].ok /\ response[i].malformed
        /\ result[i].compacted = FALSE

\* C3: one compact() invocation makes no network call when shouldCompact is
\* false of its estimate, and then returns NOT_COMPACTED with that estimate;
\* otherwise it makes one call and never a second, whatever the first came to.
C3_AtMostOneCall ==
    \A i \in Invocations :
        /\ Len(sent[i]) <= 1
        /\ pc[i] # "idle" /\ ~shouldCompact(this, Estimate(i)) =>
              /\ sent[i] = <<>>
              /\ pc[i] = "returned"
              /\ result[i] = NotCompacted(Estimate(i))
        /\ pc[i] # "idle" /\ shouldCompact(this, Estimate(i)) => Len(sent[i]) = 1

\* an invocation has returned after its one call was answered with status 500
C3_Witness ==
    \E i \in Invocations :
        /\ pc[i] = "returned" /\ Len(sent[i]) = 1
        /\ ~response[i].rejected /\ response[i].status = 500

\* the server count the response of invocation i carries, undefined when none
ServerCount(i) == OptGet(OptGet(response[i].data, "usage"), "total_tokens")

\* the invocation has returned compacted = true
ReturnedCompacted(i) == pc[i] = "returned" /\ result[i].compacted

\* C4: whenever compact() returns compacted = true, compactedTokens is
\* defined; it is usage.total_tokens for every response that carries that
\* field, and estimateTokens(response.output) only when the response carries none.
C4_ServerCountTakesPrecedence ==
    \A i \in Invocations :
        ReturnedCompacted(i) =>
            /\ result[i].compactedTokens # Undefined
            /\ result[i].compactedTokens =
                  IF ServerCount(i) # Undefined THEN ServerCount(i)
                  ELSE estimateTokens(OptGet(response[i].data, "output"))

\* C5: a result of compact() with compacted = true carries the response's
\* output as compactedInput, originalTokens and compactedTokens, all three
\* present; with compacted = false it carries only originalTokens, the estimate
\* over the messages and instructions.
C5_ResultShapes ==
    \A i \in Invocations :
        pc[i] = "returned" =>
            IF result[i].compacted
            THEN /\ DOMAIN result[i] =
                       {"compacted", "compactedInput", "originalTokens", "compactedTokens"}
                 /\ result[i].compactedInput # Undefined
                 /\ result[i].compactedInput = OptGet(response[i].data, "output")
                 /\ result[i].originalTokens # Undefined
                 /\ result[i].compactedTokens # Undefined
            ELSE /\ DOMAIN result[i] = {"compacted", "originalTokens"}
                 /\ result[i].originalTokens = Estimate(i)

\* what compact(messages, instructions) returns when it runs alone on the
\* instance and the transport answers response
SoloResult(instance, history, instr, answer) ==
    LET estimate == estimateConversationTokens(history, instr) IN
    IF ~shouldCompact(instance, estimate) THEN NotCompacted(estimate)
    ELSE IF answer.rejected \/ ~answer.ok \/ answer.malformed THEN NotCompacted(estimate)
    ELSE Compacted(OptGet(answer.data, "output"), estimate, compactedTokensOf(answer.data))

\* C11: under every interleaving of compact() invocations on one instance, the
\* instance's apiKey, baseURL, model and merged config stay what the
\* constructor set, and each invocation returns the result it would return
\* alone with the same messages, instructions and remote response.
C11_InvocationsAreIndependent ==
    /\ [][this' = this]_vars
    /\ [](\A i \in Invocations :
            pc[i] = "returned" =>
                result[i] = SoloResult(this, passed[i], instructions[i], response[i]))

\* one invocation has returned COMPACTED while another, started on another
\* history, still awaits its response
C11_Witness ==
    \E i, j \in Invocations :
        /\ i < j
        /\ pc[i] = "fetch" /\ pc[j] = "returned"
        /\ result[j].compacted
        /\ messages[i] # messages[j]
        /\ originalTokens[i] # originalTokens[j]

\* the conversion would build something different from what it reads
ConversionRewrites(messageList) == convertToResponsesInput(messageList, Undefined) # messageList

Fresh(i) ==
    /\ messages[i] = <<>> /\ passed[i] = <<>>
    /\ instructions[i] = Undefined
    /\ originalTokens[i] = Num(0)
    /\ response[i] = NoResponse
    /\ DOMAIN result[i] = {}
    /\ sent[i] = <<>>

\* the invocation has returned one of the two outcomes
Outcome(i) ==
    /\ pc[i] = "returned"
    /\ DOMAIN result[i] # {}
    /\ result[i].compacted \in BOOLEAN

\* C13: provided the transport eventually resolves the outbound call to a
\* response or a failure, every compact() invocation eventually terminates in
\* exactly one of NOT_COMPACTED and COMPACTED (no exception escapes it and it
\* never waits for ever), and nothing of an invocation is left for a later
\* one: once its result is taken its locals are gone, and the next invocation
\* starts from its own arguments.
C13_TerminatesAndLeavesNothing ==
    /\ \A i \in Invocations : (pc[i] # "idle") ~> Outcome(i)
    /\ [](\A i \in Invocations : pc[i] \notin {"idle", "fetch", "text", "json"} => Outcome(i))
    /\ [](\A i \in Invocations : pc[i] = "idle" => Fresh(i))
    /\ [][\A i \in Invocations :
            pc[i] = "idle" /\ pc'[i] # "idle" =>
                /\ originalTokens'[i] = estimateConversationTokens(passed'[i], instructions'[i])
                /\ response'[i] = NoResponse
                /\ Len(sent'[i]) <= 1]_vars

\* two invocations have ended, one COMPACTED and one NOT_COMPACTED after the
\* transport failed its call
C13_Witness ==
    \E i, j \in Invocations :
        /\ Outcome(i) /\ result[i].compacted
        /\ Outcome(j) /\ ~result[j].compacted
        /\ sent[j] # <<>> /\ response[j].rejected

====
